---- MODULE Spec2Model ----
(***************************************************************************)
(* Model of the agent dashboard App component (src/unnamed/part_000, the   *)
(* same text as the second App of src/project/src/App.tsx): the React      *)
(* state of App, the handlers handleGenerateAgent and handleSendMessage    *)
(* with their pending network requests, and the user's input events.       *)
(*                                                                         *)
(* A JavaScript string is a sequence of one-character strings.  A literal  *)
(* the program only stores and never inspects (a display name, the error   *)
(* texts) is a sequence holding the literal as one element.  A value that  *)
(* may be undefined or an array is tagged: [t |-> "string", v |-> s],      *)
(* [t |-> "array", v |-> <<s1, ..>>], [t |-> "undefined", v |-> <<>>].     *)
(***************************************************************************)
EXTENDS Integers, Sequences, FiniteSets, TLC

VARIABLES prompt, agents, selectedAgent, chatMode, currentMessage, isLoading,
          now, pending, escaped, generates, sends, issued, creates, noops

vars == <<prompt, agents, selectedAgent, chatMode, currentMessage, isLoading,
          now, pending, escaped, generates, sends, issued, creates, noops>>

(***************************************************************************)
(* Bounds of the model.                                                    *)
(***************************************************************************)
MaxTime == 1
MaxOps == 3

(***************************************************************************)
(* String primitives of the JavaScript runtime used by the handlers.       *)
(***************************************************************************)
Upper == <<"A","B","C","D","E","F","G","H","I","J","K","L","M",
           "N","O","P","Q","R","S","T","U","V","W","X","Y","Z">>
Lower == <<"a","b","c","d","e","f","g","h","i","j","k","l","m",
           "n","o","p","q","r","s","t","u","v","w","x","y","z">>
Digits == <<"0","1","2","3","4","5","6","7","8","9">> \o Lower

WhiteSpace == {" ", "\t", "\n"}

UpperSet == {Upper[i] : i \in 1..Len(Upper)}

LowerChar(c) ==
  IF c \in UpperSet
  THEN Lower[CHOOSE i \in 1..Len(Upper) : Upper[i] = c]
  ELSE c

ToLowerCase(s) == [i \in 1..Len(s) |-> LowerChar(s[i])]

StartsWith(s, p) == Len(p) <= Len(s) /\ SubSeq(s, 1, Len(p)) = p

EndsWith(s, p) == Len(p) <= Len(s) /\ SubSeq(s, Len(s) - Len(p) + 1, Len(s)) = p

Includes(s, c) == \E i \in 1..Len(s) : s[i] = c

RECURSIVE TrimStart(_)
TrimStart(s) ==
  IF s # <<>> /\ Head(s) \in WhiteSpace THEN TrimStart(Tail(s)) ELSE s

RECURSIVE TrimEnd(_)
TrimEnd(s) ==
  IF s # <<>> /\ s[Len(s)] \in WhiteSpace
  THEN TrimEnd(SubSeq(s, 1, Len(s) - 1))
  ELSE s

Trim(s) == TrimEnd(TrimStart(s))

\* s.split(c): every maximal run between occurrences of c, in order.
RECURSIVE Split(_, _)
Split(s, c) ==
  IF ~Includes(s, c) THEN <<s>>
  ELSE LET i == CHOOSE k \in 1..Len(s) :
                  s[k] = c /\ \A j \in 1..(k - 1) : s[j] # c
       IN <<SubSeq(s, 1, i - 1)>> \o Split(SubSeq(s, i + 1, Len(s)), c)

\* a.join(sep)
RECURSIVE Join(_, _)
Join(a, sep) ==
  IF a = <<>> THEN <<>>
  ELSE IF Len(a) = 1 THEN a[1]
  ELSE a[1] \o sep \o Join(Tail(a), sep)

\* n.toString(base), for a natural n
RECURSIVE NumToString(_, _)
NumToString(n, base) ==
  IF n < base THEN <<Digits[n + 1]>>
  ELSE NumToString(n \div base, base) \o <<Digits[(n % base) + 1]>>

Str(s) == [t |-> "string", v |-> s]
Arr(a) == [t |-> "array", v |-> a]
Undefined == [t |-> "undefined", v |-> <<>>]

\* x || ''
OrEmpty(x) == IF x.t = "string" /\ x.v # <<>> THEN x.v ELSE <<>>

(***************************************************************************)
(* The string literals of the handlers.                                    *)
(***************************************************************************)
HabitTrackerSuffix == <<"h","a","b","i","t"," ","t","r","a","c","k","e","r">>
PhysicsNotesSuffix == <<"p","h","y","s","i","c","s"," ","n","o","t","e","s">>
CodeMeAnAppPrefix == <<"c","o","d","e"," ","m","e"," ","a","n"," ","a","p","p">>
CreateMeAnAgentToPrefix == <<"c","r","e","a","t","e"," ","m","e"," ","a","n"," ","a","g","e","n","t"," ","t","o">>
SearchForPrefix == <<"s","e","a","r","c","h"," ","f","o","r">>
CustomNotionPrefix == <<"C","u","s","t","o","m","N","o","t","i","o","n","-">>
Pipe == "|"
Dash == "-"
NewLine == <<"\n">>
ErrorContent ==
  <<"Sorry, I encountered an error while processing your request. Please try again.">>

AgentTypes ==
  {"habit-tracker", "physics-notes", "desktop-agent", "custom-notion", "search"}

(***************************************************************************)
(* handleGenerateAgent: the rule chain that picks agentType and agentName. *)
(* "none" stands for both early returns (blank prompt, no rule matched).   *)
(***************************************************************************)
\* The rule chain with the search rule moved to the front.
ClassifyType_SearchFirst(p) ==
  LET lower == ToLowerCase(p)
  IN IF Trim(p) = <<>> THEN "none"
     ELSE IF StartsWith(lower, SearchForPrefix) THEN "search"
     ELSE IF EndsWith(lower, HabitTrackerSuffix) THEN "habit-tracker"
     ELSE IF EndsWith(lower, PhysicsNotesSuffix) THEN "physics-notes"
     ELSE IF StartsWith(lower, CodeMeAnAppPrefix) THEN "desktop-agent"
     ELSE IF StartsWith(lower, CreateMeAnAgentToPrefix) THEN "custom-notion"
     ELSE "none"

\* The chain ending in the search category instead of returning.
ClassifyType_UnmatchedIsSearch(p) ==
  LET lower == ToLowerCase(p)
  IN IF Trim(p) = <<>> THEN "none"
     ELSE IF EndsWith(lower, HabitTrackerSuffix) THEN "habit-tracker"
     ELSE IF EndsWith(lower, PhysicsNotesSuffix) THEN "physics-notes"
     ELSE IF StartsWith(lower, CodeMeAnAppPrefix) THEN "desktop-agent"
     ELSE IF StartsWith(lower, CreateMeAnAgentToPrefix) THEN "custom-notion"
     ELSE "search"

ClassifyType(p) ==
  LET lower == ToLowerCase(p)
  IN IF Trim(p) = <<>> THEN "none"
     ELSE IF EndsWith(lower, HabitTrackerSuffix) THEN "habit-tracker"
     ELSE IF EndsWith(lower, PhysicsNotesSuffix) THEN "physics-notes"
     ELSE IF StartsWith(lower, CodeMeAnAppPrefix) THEN "desktop-agent"
     ELSE IF StartsWith(lower, CreateMeAnAgentToPrefix) THEN "custom-notion"
     ELSE IF StartsWith(lower, SearchForPrefix) THEN "search"
     ELSE "none"

AgentName(type) ==
  CASE type = "habit-tracker" -> "Habit Tracker Assistant"
    [] type = "physics-notes" -> "Physics Notes Assistant"
    [] type = "desktop-agent" -> "Desktop App Developer"
    [] type = "custom-notion" -> "Custom Notion Agent"
    [] type = "search" -> "Search Assistant"

\* `CustomNotion-${Date.now().toString(36)}`
MakeNotionId(t) == CustomNotionPrefix \o NumToString(t, 36)

\* the newAgent object literal, built at time t
\* The entity built with the reference token as its secondary reference too.
NewAgent_StoresPageId(p, type, notionId, t) ==
  [id |-> NumToString(t, 10),
   name |-> AgentName(type),
   type |-> type,
   avatar |-> <<type, NumToString(t, 10)>>,
   description |-> p,
   messages |-> <<>>,
   notionId |-> notionId,
   pageId |-> notionId]

NewAgent(p, type, notionId, t) ==
  [id |-> NumToString(t, 10),
   name |-> AgentName(type),
   type |-> type,
   avatar |-> <<type, NumToString(t, 10)>>,
   description |-> p,
   messages |-> <<>>,
   notionId |-> notionId,
   pageId |-> Undefined]

Null == [type |-> "null"]

(***************************************************************************)
(* handleSendMessage: the messages, the request and the continuations.     *)
(***************************************************************************)
UserMessage(text, t) ==
  [id |-> NumToString(t, 10), content |-> Str(text), sender |-> "user",
   timestamp |-> t]

AgentMessage(content, t) ==
  [id |-> NumToString(t + 1, 10), content |-> content, sender |-> "agent",
   timestamp |-> t]

WithMessage(agent, m) == [agent EXCEPT !.messages = Append(@, m)]

\* agents.map(agent => agent.id === id ? replacement : agent)
ReplaceById(list, id, replacement) ==
  [i \in 1..Len(list) |-> IF list[i].id = id THEN replacement ELSE list[i]]

\* const [actualMessage, fullNotionId] =
\*   currentMessage.trim().split('|').map(part => part.trim())
PipeParts(text) ==
  LET parts == Split(Trim(text), Pipe)
  IN [actualMessage |-> Trim(parts[1]), fullNotionId |-> Trim(parts[2])]

\* fullNotionId.includes('-') ? fullNotionId.split('-')[1] : ''
ExtractPageId(fullNotionId) ==
  IF Includes(fullNotionId, Dash) THEN Split(fullNotionId, Dash)[2] ELSE <<>>

\* The no-pipe case sending no stored reference.
CustomNotionPayload_NoStoredId(agent, text) ==
  IF Includes(text, Pipe)
  THEN [message |-> PipeParts(text).actualMessage,
        notion_id |-> PipeParts(text).fullNotionId,
        page_id |-> ExtractPageId(PipeParts(text).fullNotionId)]
  ELSE [message |-> text,
        notion_id |-> <<>>,
        page_id |-> <<>>]

CustomNotionPayload(agent, text) ==
  IF Includes(text, Pipe)
  THEN [message |-> PipeParts(text).actualMessage,
        notion_id |-> PipeParts(text).fullNotionId,
        page_id |-> ExtractPageId(PipeParts(text).fullNotionId)]
  ELSE [message |-> text,
        notion_id |-> OrEmpty(agent.notionId),
        page_id |-> OrEmpty(agent.pageId)]

\* the switch over selectedAgent.type
Endpoint(agent) == agent.type

\* The search case keeping the default payload.
Payload_SearchKeepsMessage(agent, text) ==
  CASE agent.type \in {"habit-tracker", "physics-notes", "desktop-agent", "search"} ->
         [message |-> text]
    [] agent.type = "custom-notion" -> CustomNotionPayload(agent, text)

Payload(agent, text) ==
  CASE agent.type \in {"habit-tracker", "physics-notes", "desktop-agent"} ->
         [message |-> text]
    [] agent.type = "search" -> [query |-> text]
    [] agent.type = "custom-notion" -> CustomNotionPayload(agent, text)

(***************************************************************************)
(* callAgentAPI.  An outcome is what the network gives back: fetch         *)
(* rejects, a response that is not ok, a body that is not JSON, or a       *)
(* decoded body (an object with a messages member, an object without one,  *)
(* or null).  The result is the value returned or the error thrown.        *)
(***************************************************************************)
NetworkError == [kind |-> "reject"]
HttpStatus(code) == [kind |-> "status", code |-> code]
BadJson == [kind |-> "badjson"]
OkBody(messages) == [kind |-> "ok", body |-> [t |-> "object", messages |-> messages]]
OkNull == [kind |-> "ok", body |-> [t |-> "null"]]

ErrorText(outcome) ==
  CASE outcome.kind = "reject" -> <<"TypeError: Failed to fetch">>
    [] outcome.kind = "status" ->
         <<"API request failed with status">> \o NumToString(outcome.code, 10)
    [] outcome.kind = "badjson" -> <<"SyntaxError: Unexpected token">>
    [] OTHER -> <<"TypeError: Cannot read properties of null">>

CallAgentAPI(outcome) ==
  IF outcome.kind = "ok"
  THEN [threw |-> FALSE, value |-> outcome.body]
  ELSE [threw |-> TRUE, error |-> ErrorText(outcome)]

\* The array joined with join()'s default separator.
ResponseContent_DefaultJoin(body) ==
  IF body.messages.t = "array"
  THEN Str(Join(body.messages.v, <<",">>))
  ELSE body.messages

\* Array.isArray(response.messages) ? response.messages.join('\n')
\*                                  : response.messages
ResponseContent(body) ==
  IF body.messages.t = "array"
  THEN Str(Join(body.messages.v, NewLine))
  ELSE body.messages

\* The try block after the await throws when callAgentAPI threw or when
\* response is null (response.messages is then a TypeError).
TryThrows(outcome) ==
  CallAgentAPI(outcome).threw \/ CallAgentAPI(outcome).value.t = "null"

\* The catch block putting the error's text into the message.
SettledContent_ShowsError(outcome) ==
  IF TryThrows(outcome)
  THEN Str(IF CallAgentAPI(outcome).threw
           THEN CallAgentAPI(outcome).error
           ELSE ErrorContent)
  ELSE ResponseContent(CallAgentAPI(outcome).value)

\* The content of the message the continuation appends.
SettledContent(outcome) ==
  IF TryThrows(outcome)
  THEN Str(ErrorContent)
  ELSE ResponseContent(CallAgentAPI(outcome).value)

\* Whether the promise of handleSendMessage rejects: the catch block handles
\* every error of the try block and throws nothing itself.
SendRejects(outcome) == FALSE

(***************************************************************************)
(* The inputs of the model: what the user types and what the network       *)
(* answers.                                                                *)
(***************************************************************************)
PromptSearch == <<"s","e","a","r","c","h"," ","f","o","r"," ","x">>
PromptNotion == <<"c","r","e","a","t","e"," ","m","e"," ","a","n"," ","a","g","e","n","t"," ","t","o"," ","x">>
PromptInputs == {PromptSearch, PromptNotion}

MessageHi == <<"h","i">>
MessagePiped == <<"a","|","b","-","c">>
MessageInputs == {MessageHi}

ReplyOk == <<"o","k">>
ReplyLines == <<<<"a">>, <<"b">>>>
Outcomes == {HttpStatus(500), OkBody(Str(ReplyOk))}
SendOutcomes == {NetworkError, HttpStatus(500), BadJson, OkBody(Str(ReplyOk))}
ReplyNumber == [t |-> "number", v |-> <<"7">>]
AllOutcomes ==
  {NetworkError, HttpStatus(500), HttpStatus(404), BadJson, OkNull,
   OkBody(Str(ReplyOk)), OkBody(Str(<<>>)), OkBody(Arr(ReplyLines)),
   OkBody(Arr(<<ReplyOk>>)), OkBody(Arr(<<ReplyOk, ReplyOk, ReplyOk>>)),
   OkBody(Arr(<<>>)), OkBody(Undefined), OkBody(ReplyNumber)}

(***************************************************************************)
(* The state: the useState cells of App (lines 33-38), the last value read *)
(* from Date.now(), the requests awaited by a handler, each with the       *)
(* values its closure captured, whether a handler's promise rejected, and  *)
(* counters of the matched handleGenerateAgent calls, the accepted         *)
(* handleSendMessage calls, the fetch calls, the prompts classified as     *)
(* custom-notion and the handler calls that returned at once.              *)
(***************************************************************************)
Init ==
  /\ prompt = <<>>
  /\ agents = <<>>
  /\ selectedAgent = Null
  /\ chatMode = FALSE
  /\ currentMessage = <<>>
  /\ isLoading = FALSE
  /\ now = 0
  /\ pending = <<>>
  /\ escaped = FALSE
  /\ generates = 0
  /\ sends = 0
  /\ issued = 0
  /\ creates = 0
  /\ noops = 0

\* if (chatMode && selectedAgent) return <ChatInterface />; otherwise the
\* dashboard with the prompt input and the agents grid is rendered.
ChatView == chatMode /\ selectedAgent # Null

Remove(q, i) == SubSeq(q, 1, i - 1) \o SubSeq(q, i + 1, Len(q))

CreateRequest(p, type, notionId) ==
  [kind |-> "create", agents |-> agents, prompt |-> p, type |-> type,
   notionId |-> notionId,
   endpoint |-> "create-custom-notion-agent",
   payload |-> [notion_id |-> notionId]]

ChatRequest(updated, text) ==
  [kind |-> "chat", agents |-> agents, selectedAgent |-> selectedAgent,
   updated |-> updated,
   endpoint |-> Endpoint(selectedAgent),
   payload |-> Payload(selectedAgent, text)]

\* The handler calls made so far, ignored ones included.
Calls == generates + sends + noops

\* onChange of the prompt input
TypePrompt(p) ==
  /\ ~ChatView
  /\ p # prompt
  /\ prompt' = p
  /\ UNCHANGED <<agents, selectedAgent, chatMode, currentMessage, isLoading,
                 now, pending, escaped, generates, sends, issued,
                 creates, noops>>

\* The custom-notion branch adding its entity before the request settles.
HandleGenerateAgent_AddsBeforeSettle(t) ==
  /\ ~ChatView
  /\ LET type == ClassifyType(prompt)
     IN CASE type = "none" ->
               /\ Calls < MaxOps
               /\ noops' = noops + 1
               /\ UNCHANGED <<prompt, agents, selectedAgent, chatMode,
                              currentMessage, isLoading, now, pending,
                              escaped, generates, sends, issued, creates>>
          [] type = "custom-notion" ->
               /\ Calls < MaxOps
               /\ now' = t
               /\ agents' = Append(agents,
                               NewAgent(prompt, type, Str(MakeNotionId(t)), t))
               /\ pending' = Append(pending,
                               CreateRequest(prompt, type, MakeNotionId(t)))
               /\ generates' = generates + 1
               /\ issued' = issued + 1
               /\ creates' = creates + 1
               /\ UNCHANGED <<prompt, selectedAgent, chatMode,
                              currentMessage, isLoading, escaped, sends,
                              noops>>
          [] OTHER ->
               /\ Calls < MaxOps
               /\ now' = t
               /\ agents' = Append(agents, NewAgent(prompt, type, Undefined, t))
               /\ prompt' = <<>>
               /\ generates' = generates + 1
               /\ UNCHANGED <<selectedAgent, chatMode, currentMessage, isLoading,
                              pending, escaped, sends, issued, creates, noops>>

\* handleGenerateAgent up to its return or its await
HandleGenerateAgent(t) ==
  /\ ~ChatView
  /\ LET type == ClassifyType(prompt)
     IN CASE type = "none" ->
               /\ Calls < MaxOps
               /\ noops' = noops + 1
               /\ UNCHANGED <<prompt, agents, selectedAgent, chatMode,
                              currentMessage, isLoading, now, pending,
                              escaped, generates, sends, issued, creates>>
          [] type = "custom-notion" ->
               /\ Calls < MaxOps
               /\ now' = t
               /\ pending' = Append(pending,
                               CreateRequest(prompt, type, MakeNotionId(t)))
               /\ generates' = generates + 1
               /\ issued' = issued + 1
               /\ creates' = creates + 1
               /\ UNCHANGED <<prompt, agents, selectedAgent, chatMode,
                              currentMessage, isLoading, escaped, sends,
                              noops>>
          [] OTHER ->
               /\ Calls < MaxOps
               /\ now' = t
               /\ agents' = Append(agents, NewAgent(prompt, type, Undefined, t))
               /\ prompt' = <<>>
               /\ generates' = generates + 1
               /\ UNCHANGED <<selectedAgent, chatMode, currentMessage, isLoading,
                              pending, escaped, sends, issued, creates, noops>>

\* The continuation creating the entity only when the request succeeded.
SettleCreate_FailureBlocks(i, outcome, t) ==
  /\ pending[i].kind = "create"
  /\ now' = t
  /\ agents' = IF outcome.kind = "ok"
                THEN Append(pending[i].agents,
                            NewAgent(pending[i].prompt, pending[i].type,
                                     Str(pending[i].notionId), t))
                ELSE agents
  /\ prompt' = <<>>
  /\ pending' = Remove(pending, i)
  /\ UNCHANGED <<selectedAgent, chatMode, currentMessage, isLoading,
                 escaped, generates, sends, issued, creates, noops>>

\* handleGenerateAgent after the await of the creation request: the error of
\* a failed request is caught and logged, then both paths build newAgent.
SettleCreate(i, outcome, t) ==
  /\ pending[i].kind = "create"
  /\ now' = t
  /\ agents' = Append(pending[i].agents,
                      NewAgent(pending[i].prompt, pending[i].type,
                               Str(pending[i].notionId), t))
  /\ prompt' = <<>>
  /\ pending' = Remove(pending, i)
  /\ UNCHANGED <<selectedAgent, chatMode, currentMessage, isLoading,
                 escaped, generates, sends, issued, creates, noops>>

\* onClick of an agent card: setSelectedAgent(agent); handleOpenChat()
SelectAgent(i) ==
  /\ ~ChatView
  /\ selectedAgent' = agents[i]
  /\ chatMode' = TRUE
  /\ currentMessage' = <<>>
  /\ UNCHANGED <<prompt, agents, isLoading, now, pending, escaped, generates,
                 sends, issued, creates, noops>>

\* onClick of the back arrow: setChatMode(false)
Back ==
  /\ ChatView
  /\ chatMode' = FALSE
  /\ UNCHANGED <<prompt, agents, selectedAgent, currentMessage, isLoading, now,
                 pending, escaped, generates, sends, issued, creates, noops>>

\* onChange of the chat input
TypeMessage(m) ==
  /\ ChatView
  /\ m # currentMessage
  /\ currentMessage' = m
  /\ UNCHANGED <<prompt, agents, selectedAgent, chatMode, isLoading, now,
                 pending, escaped, generates, sends, issued, creates, noops>>

\* The guard testing the input without trimming it.
HandleSendMessage_AcceptsBlank(t) ==
  /\ ChatView
  /\ IF currentMessage = <<>> \/ selectedAgent = Null
     THEN /\ Calls < MaxOps
          /\ noops' = noops + 1
          /\ UNCHANGED <<prompt, agents, selectedAgent, chatMode,
                         currentMessage, isLoading, now, pending, escaped,
                         generates, sends, issued, creates>>
     ELSE LET updated == WithMessage(selectedAgent,
                                     UserMessage(currentMessage, t))
          IN /\ Calls < MaxOps
             /\ now' = t
             /\ agents' = ReplaceById(agents, selectedAgent.id, updated)
             /\ selectedAgent' = updated
             /\ currentMessage' = <<>>
             /\ isLoading' = TRUE
             /\ pending' = Append(pending, ChatRequest(updated, currentMessage))
             /\ sends' = sends + 1
             /\ issued' = issued + 1
             /\ UNCHANGED <<prompt, chatMode, escaped, generates, creates, noops>>

\* handleSendMessage up to its await
HandleSendMessage(t) ==
  /\ ChatView
  /\ IF Trim(currentMessage) = <<>> \/ selectedAgent = Null
     THEN /\ Calls < MaxOps
          /\ noops' = noops + 1
          /\ UNCHANGED <<prompt, agents, selectedAgent, chatMode,
                         currentMessage, isLoading, now, pending, escaped,
                         generates, sends, issued, creates>>
     ELSE LET updated == WithMessage(selectedAgent,
                                     UserMessage(currentMessage, t))
          IN /\ Calls < MaxOps
             /\ now' = t
             /\ agents' = ReplaceById(agents, selectedAgent.id, updated)
             /\ selectedAgent' = updated
             /\ currentMessage' = <<>>
             /\ isLoading' = TRUE
             /\ pending' = Append(pending, ChatRequest(updated, currentMessage))
             /\ sends' = sends + 1
             /\ issued' = issued + 1
             /\ UNCHANGED <<prompt, chatMode, escaped, generates, creates, noops>>

\* The continuation sending the request again after a failure.
SettleChat_RetriesOnFailure(i, outcome, t) ==
  /\ pending[i].kind = "chat"
  /\ now' = t
  /\ IF TryThrows(outcome)
     THEN /\ pending' = Append(Remove(pending, i), pending[i])
          /\ issued' = issued + 1
          /\ UNCHANGED <<agents, selectedAgent, isLoading, escaped>>
     ELSE /\ LET final == WithMessage(pending[i].updated,
                                      AgentMessage(SettledContent(outcome), t))
             IN /\ agents' = ReplaceById(pending[i].agents,
                                         pending[i].selectedAgent.id, final)
                /\ selectedAgent' = final
          /\ isLoading' = FALSE
          /\ escaped' = (escaped \/ SendRejects(outcome))
          /\ pending' = Remove(pending, i)
          /\ UNCHANGED issued
  /\ UNCHANGED <<prompt, chatMode, currentMessage, generates, sends, creates,
                 noops>>

\* handleSendMessage after the await: the try, catch and finally blocks
SettleChat(i, outcome, t) ==
  /\ pending[i].kind = "chat"
  /\ now' = t
  /\ LET final == WithMessage(pending[i].updated,
                              AgentMessage(SettledContent(outcome), t))
     IN /\ agents' = ReplaceById(pending[i].agents,
                                 pending[i].selectedAgent.id, final)
        /\ selectedAgent' = final
  /\ isLoading' = FALSE
  /\ escaped' = (escaped \/ SendRejects(outcome))
  /\ pending' = Remove(pending, i)
  /\ UNCHANGED <<prompt, chatMode, currentMessage, generates, sends, issued,
                 creates, noops>>

\* What Date.now() can return: the value of the last read or a later one.
\* The reads within one synchronous block return the same millisecond.
Clock == now..MaxTime

Next ==
  \/ \E p \in PromptInputs : TypePrompt(p)
  \/ \E t \in Clock : HandleGenerateAgent(t)
  \/ \E i \in 1..Len(pending), o \in Outcomes, t \in Clock : SettleCreate(i, o, t)
  \/ \E i \in 1..Len(agents) : SelectAgent(i)
  \/ Back
  \/ \E m \in MessageInputs : TypeMessage(m)
  \/ \E t \in Clock : HandleSendMessage(t)
  \/ \E i \in 1..Len(pending), o \in Outcomes, t \in Clock : SettleChat(i, o, t)

Spec == Init /\ [][Next]_vars

(***************************************************************************)
(* The classifier on its own: the prompt input holds any text of           *)
(* ClassifierPrompts (a prefix followed by a suffix) and the user submits  *)
(* it.                                                                     *)
(***************************************************************************)
PromptPrefixes ==
  {<<>>, <<" ">>,
   <<"C","r","e","a","t","e"," ","a"," ">>,
   <<"S","e","a","r","c","h"," ","f","o","r"," ">>,
   <<"s","e","a","r","c","h"," ","f","o","r"," ">>,
   <<"C","o","d","e"," ","m","e"," ","a","n"," ","a","p","p"," ">>,
   <<"C","r","e","a","t","e"," ","m","e"," ","a","n"," ","a","g","e","n","t"," ","t","o"," ">>}
PromptSuffixes ==
  {<<>>, <<"x">>,
   <<"h","a","b","i","t"," ","t","r","a","c","k","e","r">>,
   <<"H","a","b","i","t"," ","T","r","a","c","k","e","r">>,
   <<"p","h","y","s","i","c","s"," ","n","o","t","e","s">>,
   <<"h","a","b","i","t"," ","t","r","a","c","k","e","r"," ">>}
ClassifierPrompts == {a \o b : a \in PromptPrefixes, b \in PromptSuffixes}

\* The prompts of the Tips & Prompts sidebar that ClassifierPrompts lacks.
TipPhysicsNotes == <<"G","e","n","e","r","a","t","e"," ","p","h","y","s","i","c","s"," ","n","o","t","e","s">>
TipCustomNotion ==
  <<"C","r","e","a","t","e"," ","m","e"," ","a","n"," ","a","g","e","n","t"," ","t","o"," ","m","a","n","a","g","e"," ","m","y"," ","N","o","t","i","o","n">>
TipDesktopApp == <<"C","o","d","e"," ","m","e"," ","a","n"," ","a","p","p"," ","f","o","r"," ","x">>
TipPrompts == {TipPhysicsNotes, TipCustomNotion, TipDesktopApp}

\* A prompt typed with a leading space.
PromptLeadingSpace == <<" ","s","e","a","r","c","h"," ","f","o","r"," ","x">>
PaddedPrompts == {PromptLeadingSpace}

InitClassify ==
  /\ prompt \in ClassifierPrompts \cup TipPrompts \cup PaddedPrompts
  /\ agents = <<>>
  /\ selectedAgent = Null
  /\ chatMode = FALSE
  /\ currentMessage = <<>>
  /\ isLoading = FALSE
  /\ now = 0
  /\ pending = <<>>
  /\ escaped = FALSE
  /\ generates = 0
  /\ sends = 0
  /\ issued = 0
  /\ creates = 0
  /\ noops = 0

NextClassify ==
  \/ \E t \in Clock : HandleGenerateAgent(t)
  \/ \E i \in 1..Len(pending), o \in SendOutcomes, t \in Clock : SettleCreate(i, o, t)

SpecClassify == InitClassify /\ [][NextClassify]_vars

RuleCategory ==
  <<"habit-tracker", "physics-notes", "desktop-agent", "custom-notion", "search">>

RuleHolds(k, s) ==
  CASE k = 1 -> EndsWith(s, HabitTrackerSuffix)
    [] k = 2 -> EndsWith(s, PhysicsNotesSuffix)
    [] k = 3 -> StartsWith(s, CodeMeAnAppPrefix)
    [] k = 4 -> StartsWith(s, CreateMeAnAgentToPrefix)
    [] k = 5 -> StartsWith(s, SearchForPrefix)

SatisfiedRules(p) == {k \in 1..Len(RuleCategory) : RuleHolds(k, ToLowerCase(p))}

FirstRuleCategory(p) ==
  IF SatisfiedRules(p) = {} THEN "none"
  ELSE RuleCategory[CHOOSE k \in SatisfiedRules(p) :
                      \A j \in SatisfiedRules(p) : k <= j]

C1_ChainIsFirstRule ==
  Trim(prompt) # <<>> => ClassifyType(prompt) = FirstRuleCategory(prompt)

C1_StepUsesFirstRule ==
  (generates' = generates + 1) =>
     /\ FirstRuleCategory(prompt) # "none"
     /\ \/ /\ pending' = pending
           /\ agents' = Append(agents, agents'[Len(agents')])
           /\ agents'[Len(agents')].type = FirstRuleCategory(prompt)
        \/ /\ agents' = agents
           /\ pending' = Append(pending, pending'[Len(pending')])
           /\ pending'[Len(pending')].type = FirstRuleCategory(prompt)

(***************************************************************************)
(* C1.  The category is that of the first rule, in the order habit         *)
(* tracker suffix, physics notes suffix, code me an app prefix, create me  *)
(* an agent to prefix, search for prefix, that the lower-cased prompt      *)
(* satisfies, and none when no rule is satisfied: the rule chain agrees    *)
(* with the least satisfied rule for every prompt, and every step that     *)
(* creates an entity or a creation request gives it that category.         *)
(***************************************************************************)
C1_FirstRuleWins == []C1_ChainIsFirstRule /\ [][C1_StepUsesFirstRule]_vars

PromptSearchPhysics == SearchForPrefix \o <<" ">> \o PhysicsNotesSuffix

C1_Witness ==
  /\ Len(agents) = 1
  /\ agents[1].description = PromptSearchPhysics
  /\ Cardinality(SatisfiedRules(agents[1].description)) = 2
  /\ agents[1].type = "physics-notes"

(***************************************************************************)
(* Steps of the handlers, as seen from a pair of states.                   *)
(***************************************************************************)
\* a handleGenerateAgent call that adds its entity without awaiting
IsDirectCreation == generates' = generates + 1 /\ pending' = pending

\* the continuation of the creation request pending[i]
IsCreationSettled(i) ==
  /\ Len(pending') = Len(pending) - 1
  /\ pending[i].kind = "create"
  /\ pending' = Remove(pending, i)

\* the continuation of the chat request pending[i]
IsChatSettled(i) ==
  /\ Len(pending') = Len(pending) - 1
  /\ pending[i].kind = "chat"
  /\ pending' = Remove(pending, i)

IsPrefix(a, b) == Len(a) <= Len(b) /\ SubSeq(b, 1, Len(a)) = a

DisplayName ==
  [c \in AgentTypes |->
     CASE c = "habit-tracker" -> "Habit Tracker Assistant"
       [] c = "physics-notes" -> "Physics Notes Assistant"
       [] c = "desktop-agent" -> "Desktop App Developer"
       [] c = "custom-notion" -> "Custom Notion Agent"
       [] c = "search" -> "Search Assistant"]

AppendsNewEntity(p) ==
  /\ Len(agents') = Len(agents) + 1
  /\ SubSeq(agents', 1, Len(agents)) = agents
  /\ LET e == agents'[Len(agents')]
     IN /\ e.type \in AgentTypes
        /\ e.name = DisplayName[e.type]
        /\ e.description = p
        /\ e.messages = <<>>

C2_CreationStep ==
  /\ IsDirectCreation => AppendsNewEntity(prompt)
  /\ \A i \in 1..Len(pending) :
        IsCreationSettled(i) => AppendsNewEntity(pending[i].prompt)

(***************************************************************************)
(* C2.  Every creation appends exactly one new entity to the end of the    *)
(* collection as it is at that step, with the display name of its          *)
(* category, the submitted prompt as description and no messages, and      *)
(* leaves the entities already there unchanged.                            *)
(***************************************************************************)
C2_CreationAppendsOnly == [][C2_CreationStep]_vars

C3_KeepsEntities ==
  /\ Len(agents') >= Len(agents)
  /\ \A i \in 1..Len(agents) :
        /\ agents'[i].id = agents[i].id
        /\ agents'[i].description = agents[i].description

(***************************************************************************)
(* C3.  Entities are never deleted: every step keeps every entity of the   *)
(* collection, at its place.                                               *)
(***************************************************************************)
C3_NeverDeleted == [][C3_KeepsEntities]_vars

Chronological(ms) ==
  \A i, j \in 1..Len(ms) : i <= j => ms[i].timestamp <= ms[j].timestamp

C4_AppendOnlyStep ==
  /\ \A i \in 1..Len(agents) :
        (i <= Len(agents') /\ agents'[i].id = agents[i].id)
           => IsPrefix(agents[i].messages, agents'[i].messages)
  /\ (selectedAgent # Null /\ selectedAgent'.id = selectedAgent.id)
        => IsPrefix(selectedAgent.messages, selectedAgent'.messages)

C4_AllChronological ==
  /\ \A i \in 1..Len(agents) : Chronological(agents[i].messages)
  /\ selectedAgent # Null => Chronological(selectedAgent.messages)

(***************************************************************************)
(* C4.  Message lists are append-only and chronological: across every step *)
(* the list of an entity that stays in the collection, and the list of the *)
(* selected copy while the same entity stays selected, has the old list as *)
(* a prefix, and timestamps never decrease along a list.                   *)
(***************************************************************************)
C4_AppendOnlyChronological == []C4_AllChronological /\ [][C4_AppendOnlyStep]_vars

Alternates(ms) ==
  /\ Len(ms) % 2 = 0
  /\ \A i \in 1..Len(ms) : ms[i].sender = (IF i % 2 = 1 THEN "user" ELSE "agent")

CountSender(ms, who) == Cardinality({i \in 1..Len(ms) : ms[i].sender = who})

NoChatPending == \A i \in 1..Len(pending) : pending[i].kind # "chat"

(***************************************************************************)
(* C5.  Once every chat request has settled, each conversation alternates  *)
(* user and agent messages in pairs, and the conversation of the only      *)
(* entity ever created holds as many user messages, and as many agent      *)
(* messages, as sends were accepted.                                       *)
(***************************************************************************)
C5_PairsAfterSettling ==
  NoChatPending =>
     /\ \A i \in 1..Len(agents) : Alternates(agents[i].messages)
     /\ selectedAgent # Null => Alternates(selectedAgent.messages)
     /\ (selectedAgent # Null /\ generates = 1) =>
           /\ CountSender(selectedAgent.messages, "user") = sends
           /\ CountSender(selectedAgent.messages, "agent") = sends

(***************************************************************************)
(* Sends to one entity, overlapping or not: a search entity created at     *)
(* time 0 is open in the chat view; the user types and sends, and each     *)
(* request fails in one of the three ways or succeeds.                     *)
(***************************************************************************)
InitSend ==
  /\ prompt = <<>>
  /\ selectedAgent = NewAgent(PromptSearch, "search", Undefined, 0)
  /\ agents = <<selectedAgent>>
  /\ chatMode = TRUE
  /\ currentMessage = <<>>
  /\ isLoading = FALSE
  /\ now = 0
  /\ pending = <<>>
  /\ escaped = FALSE
  /\ generates = 1
  /\ sends = 0
  /\ issued = 0
  /\ creates = 0
  /\ noops = 0

NextSend ==
  \/ \E m \in MessageInputs : TypeMessage(m)
  \/ \E t \in Clock : HandleSendMessage(t)
  \/ \E i \in 1..Len(pending), o \in SendOutcomes, t \in Clock : SettleChat(i, o, t)

SpecSend == InitSend /\ [][NextSend]_vars

FallbackText ==
  <<"Sorry, I encountered an error while processing your request. Please try again.">>

FailedOutcomes == {NetworkError, HttpStatus(500), BadJson}

HasErrorText(ms) ==
  \E k \in 1..Len(ms), o \in FailedOutcomes : ms[k].content = Str(ErrorText(o))

C6_FailureStep ==
  \A i \in {k \in 1..Len(pending) : IsChatSettled(k)}, o \in FailedOutcomes :
     SettleChat(i, o, now') =>
        LET sent == pending[i].updated.messages
            last == selectedAgent'.messages[Len(selectedAgent'.messages)]
        IN /\ selectedAgent'.id = pending[i].selectedAgent.id
           /\ selectedAgent'.messages = Append(sent, last)
           /\ sent[Len(sent)].sender = "user"
           /\ last.sender = "agent"
           /\ last.content = Str(FallbackText)
           /\ \A k \in 1..Len(agents') :
                 agents'[k].id = selectedAgent'.id
                    => agents'[k].messages = selectedAgent'.messages
           /\ ~HasErrorText(selectedAgent'.messages)
           /\ isLoading' = FALSE
           /\ escaped' = FALSE

(***************************************************************************)
(* C6.  A chat request that fails (fetch rejects, the status is not ok,    *)
(* the body is not JSON) makes its continuation append to the conversation *)
(* it sent, as the one message after the user message, an agent message    *)
(* with the fixed fallback text and not the error text, clear the loading  *)
(* flag and return without throwing.                                       *)
(***************************************************************************)
C6_FailureGivesFallback == [][C6_FailureStep]_vars

C6_Witness ==
  /\ selectedAgent # Null
  /\ Len(selectedAgent.messages) = 3
  /\ selectedAgent.messages[2].sender = "user"
  /\ selectedAgent.messages[3].sender = "agent"
  /\ selectedAgent.messages[3].content = Str(FallbackText)
  /\ ~isLoading
  /\ pending = <<>>

(***************************************************************************)
(* One send on its own: one entity of any category, created at time 0, is  *)
(* open in the chat view, the chat input holds any text of ChatMessages,   *)
(* the user sends it and the network answers with any of AllOutcomes.      *)
(***************************************************************************)
MessageOnePipe == <<"a","|","b">>
MessageTwoPipes == <<"a","|","b","|","c">>
MessageSpaced == <<" ","a"," ","|"," ","b","-","c","-","d"," ">>
MessageOnlyPipe == <<"|">>
MessageUpdatePiped == <<"U","p","d","a","t","e"," ","m","y"," ","p","a","g","e","|","a","b","c","-","d","x","z">>
MessageUpdate == <<"U","p","d","a","t","e"," ","m","y"," ","p","a","g","e">>
ChatMessages ==
  {<<>>, <<" ">>, MessageHi, MessagePiped, MessageOnePipe, MessageTwoPipes,
   MessageSpaced, MessageOnlyPipe, MessageUpdatePiped, MessageUpdate}

ChatAgents ==
  {NewAgent(HabitTrackerSuffix, "habit-tracker", Undefined, 0),
   NewAgent(PhysicsNotesSuffix, "physics-notes", Undefined, 0),
   NewAgent(CodeMeAnAppPrefix, "desktop-agent", Undefined, 0),
   NewAgent(PromptSearch, "search", Undefined, 0),
   NewAgent(PromptNotion, "custom-notion", Str(MakeNotionId(0)), 0)}

InitChat ==
  /\ prompt = <<>>
  /\ selectedAgent \in ChatAgents
  /\ agents = <<selectedAgent>>
  /\ chatMode = TRUE
  /\ currentMessage \in ChatMessages
  /\ isLoading = FALSE
  /\ now = 0
  /\ pending = <<>>
  /\ escaped = FALSE
  /\ generates = 1
  /\ sends = 0
  /\ issued = (IF selectedAgent.type = "custom-notion" THEN 1 ELSE 0)
  /\ creates = issued
  /\ noops = 0

NextChat ==
  \/ \E t \in Clock : HandleSendMessage(t)
  \/ \E i \in 1..Len(pending), o \in AllOutcomes, t \in Clock : SettleChat(i, o, t)

SpecChat == InitChat /\ [][NextChat]_vars

LastMessage(agent) == agent.messages[Len(agent.messages)]

UnusableOutcomes == {OkBody(Undefined), OkBody(ReplyNumber), OkNull}

C7_UnusableStep ==
  \A i \in {k \in 1..Len(pending) : IsChatSettled(k)}, o \in UnusableOutcomes :
     SettleChat(i, o, now') =>
        /\ LastMessage(selectedAgent').sender = "agent"
        /\ LastMessage(selectedAgent').content = Str(FallbackText)

(***************************************************************************)
(* C7.  A 2xx response whose body has no usable messages member (the       *)
(* member is absent, or is neither a string nor an array of strings) is    *)
(* handled as a failure: the agent message appended for that send has the  *)
(* fixed fallback text.                                                    *)
(***************************************************************************)
C7_UnusableBodyIsFailure == [][C7_UnusableStep]_vars

StringOutcomes == {o \in AllOutcomes : o.kind = "ok" /\ o.body.t = "object"
                                         /\ o.body.messages.t = "string"}
ArrayOutcomes == {o \in AllOutcomes : o.kind = "ok" /\ o.body.t = "object"
                                        /\ o.body.messages.t = "array"}

AppendsOneAgentMessage(i) ==
  /\ selectedAgent'.messages =
        Append(pending[i].updated.messages, LastMessage(selectedAgent'))
  /\ LastMessage(selectedAgent').sender = "agent"
  /\ LastMessage(selectedAgent').content.t = "string"

C8_SuccessStep ==
  \A i \in {k \in 1..Len(pending) : IsChatSettled(k)} :
     /\ \A o \in StringOutcomes :
           SettleChat(i, o, now') =>
              /\ AppendsOneAgentMessage(i)
              /\ LastMessage(selectedAgent').content.v = o.body.messages.v
     /\ \A o \in ArrayOutcomes :
           SettleChat(i, o, now') =>
              /\ AppendsOneAgentMessage(i)
              /\ IF o.body.messages.v = <<>>
                 THEN LastMessage(selectedAgent').content.v = <<>>
                 ELSE Split(LastMessage(selectedAgent').content.v, "\n")
                         = o.body.messages.v

(***************************************************************************)
(* C8.  A success whose messages member is a string s appends exactly one  *)
(* agent message with text s; a success whose messages member is a         *)
(* sequence of strings appends exactly one agent message whose text splits *)
(* at the newlines into exactly the elements, in order (the empty text for *)
(* the empty sequence).                                                    *)
(***************************************************************************)
C8_SuccessText == [][C8_SuccessStep]_vars

C8_Witness ==
  /\ pending = <<>>
  /\ Len(selectedAgent.messages) = 2
  /\ LastMessage(selectedAgent).content = Str(<<"a", "\n", "b">>)

IsAcceptedSend == sends' = sends + 1

C9_SendStep ==
  IsAcceptedSend =>
     LET r == pending'[Len(pending')]
     IN /\ pending' = Append(pending, r)
        /\ selectedAgent.type \in {"habit-tracker", "physics-notes", "desktop-agent"}
              => /\ r.endpoint = selectedAgent.type
                 /\ r.payload = [message |-> currentMessage]
        /\ selectedAgent.type = "search"
              => /\ r.endpoint = "search"
                 /\ r.payload = [query |-> currentMessage]
                 /\ "message" \notin DOMAIN r.payload

(***************************************************************************)
(* C9.  A send for a habit-tracker, physics-notes or desktop-agent entity  *)
(* goes to the endpoint named as the category with payload                 *)
(* { message: text }; a send for a search entity goes to "search" with     *)
(* payload { query: text }, which has no message key.  The category is     *)
(* that of the entity selected when the send is issued.                    *)
(***************************************************************************)
C9_EndpointAndPayload == [][C9_SendStep]_vars

C9_Witness ==
  /\ Len(pending) = 1
  /\ pending[1].endpoint = "search"
  /\ DOMAIN pending[1].payload = {"query"}
  /\ pending[1].payload.query = MessagePiped

FirstIndexOf(s, c) == CHOOSE k \in 1..Len(s) : s[k] = c /\ \A j \in 1..(k - 1) : s[j] # c

BeforeFirst(s, c) == SubSeq(s, 1, FirstIndexOf(s, c) - 1)

AfterFirst(s, c) == SubSeq(s, FirstIndexOf(s, c) + 1, Len(s))

C10_PipedStep ==
  (IsAcceptedSend /\ selectedAgent.type = "custom-notion"
      /\ Includes(currentMessage, "|")) =>
     LET r == pending'[Len(pending')]
     IN /\ r.payload.message = Trim(BeforeFirst(currentMessage, "|"))
        /\ r.payload.notion_id = Trim(AfterFirst(currentMessage, "|"))
        /\ currentMessage = MessageTwoPipes => r.payload.notion_id = <<"b", "|", "c">>
        /\ currentMessage = MessageUpdatePiped =>
              r.payload = [message |-> MessageUpdate,
                           notion_id |-> <<"a", "b", "c", "-", "d", "x", "z">>,
                           page_id |-> <<"d", "x", "z">>]

(***************************************************************************)
(* C10.  For a custom-notion entity and an input with a pipe, the payload  *)
(* message is the trimmed text before the first pipe and notion_id is the  *)
(* trimmed text of everything after the first pipe.                        *)
(***************************************************************************)
C10_SplitAtFirstPipe == [][C10_PipedStep]_vars

\* the request an accepted handleSendMessage call has just started
SentRequest == pending'[Len(pending')]

C11_PageIdStep ==
  (IsAcceptedSend /\ selectedAgent.type = "custom-notion"
      /\ Includes(currentMessage, "|")) =>
     LET R == SentRequest.payload.notion_id
     IN /\ Includes(R, "-") => SentRequest.payload.page_id = AfterFirst(R, "-")
        /\ ~Includes(R, "-") => SentRequest.payload.page_id = <<>>

(***************************************************************************)
(* C11.  For a custom-notion entity and a piped input whose second part R  *)
(* has a hyphen, page_id is the whole of R after its first hyphen; when R  *)
(* has no hyphen, page_id is the empty string.                             *)
(***************************************************************************)
C11_PageIdAfterFirstHyphen == [][C11_PageIdStep]_vars

C12_NoPipeStep ==
  /\ (IsAcceptedSend /\ selectedAgent.type = "custom-notion"
         /\ ~Includes(currentMessage, "|")) =>
        /\ SentRequest.endpoint = "custom-notion"
        /\ SentRequest.payload =
              [message |-> currentMessage,
               notion_id |-> IF selectedAgent.notionId.t = "string"
                             THEN selectedAgent.notionId.v ELSE <<>>,
               page_id |-> IF selectedAgent.pageId.t = "string"
                           THEN selectedAgent.pageId.v ELSE <<>>]
  /\ \A i \in 1..Len(pending) :
        IsCreationSettled(i) =>
           /\ pending[i].endpoint = "create-custom-notion-agent"
           /\ agents'[Len(agents')].type = "custom-notion"
           /\ agents'[Len(agents')].notionId = Str(pending[i].payload.notion_id)

\* every stored reference token is the one the entity was created with
C12_StoredTokens ==
  \A a \in {agents[i] : i \in 1..Len(agents)} \cup ({selectedAgent} \ {Null}) :
     /\ a.type = "custom-notion" =>
           \E t \in 0..MaxTime : a.notionId = Str(MakeNotionId(t))
     /\ a.type # "custom-notion" => a.notionId = Undefined

(***************************************************************************)
(* C12.  For a custom-notion entity and an input with no pipe, the payload *)
(* is exactly { message: text, notion_id: N, page_id: P }: N is the token  *)
(* stored on the entity at creation, which is the token sent in the        *)
(* entity's creation request, or the empty string when none is stored,     *)
(* and P is the stored secondary reference or the empty string.            *)
(***************************************************************************)
C12_NoPipePayload == []C12_StoredTokens /\ [][C12_NoPipeStep]_vars

C12_Witness ==
  \E i \in 1..Len(pending) :
     /\ pending[i].kind = "chat"
     /\ pending[i].endpoint = "custom-notion"
     /\ pending[i].payload.message = MessageHi
     /\ \E t \in 0..MaxTime : pending[i].payload.notion_id = MakeNotionId(t)
     /\ pending[i].payload.page_id = <<>>

C13_CreationRequestStep ==
  /\ (generates' = generates + 1) =>
        IF ClassifyType(prompt) = "custom-notion"
        THEN /\ pending' = Append(pending, SentRequest)
             /\ SentRequest.kind = "create"
             /\ SentRequest.endpoint = "create-custom-notion-agent"
             /\ SentRequest.payload = [notion_id |-> MakeNotionId(now')]
             /\ issued' = issued + 1
        ELSE /\ pending' = pending
             /\ issued' = issued
  /\ \A i \in 1..Len(pending) :
        IsCreationSettled(i) =>
           /\ Len(agents') = Len(pending[i].agents) + 1
           /\ agents'[Len(agents')].type = "custom-notion"
           /\ agents'[Len(agents')].description = pending[i].prompt
           /\ agents'[Len(agents')].notionId = Str(pending[i].payload.notion_id)
           /\ issued' = issued
           /\ UNCHANGED <<escaped, isLoading, selectedAgent, chatMode>>
  /\ (noops' = noops + 1) => (pending' = pending /\ issued' = issued)

(***************************************************************************)
(* C13.  Classifying a prompt as custom-notion issues exactly one request  *)
(* to create-custom-notion-agent carrying the synthesized token, and the   *)
(* entity is created when that request settles, with success or with       *)
(* failure: nothing is retried and no error is surfaced.  No creation      *)
(* request is issued for any other category.                               *)
(***************************************************************************)
C13_OneCreationRequest == [][C13_CreationRequestStep]_vars

C13_Witness ==
  /\ creates = 1
  /\ issued = 1
  /\ pending = <<>>
  /\ Len(agents) = 1
  /\ agents[1].type = "custom-notion"
  /\ \E t \in 0..MaxTime : agents[1].notionId = Str(MakeNotionId(t))
  /\ ~escaped

PromptUnmatched == <<"C","r","e","a","t","e"," ","a"," ","x">>

\* a step of handleGenerateAgent: a call that matched or one that returned
IsGenerateCall == ~ChatView /\ (generates' # generates \/ noops' # noops)

C14_IgnoredStep ==
  (IsGenerateCall /\ (Trim(prompt) = <<>> \/ SatisfiedRules(prompt) = {})) =>
     /\ noops' = noops + 1
     /\ UNCHANGED <<prompt, agents, selectedAgent, chatMode, currentMessage,
                    isLoading, pending, escaped, generates, sends, issued,
                    creates>>

(***************************************************************************)
(* C14.  When the prompt is empty, whitespace-only or matches no rule,     *)
(* handleGenerateAgent is a no-op: no entity is created, the collection,   *)
(* the selection and the message lists are unchanged, no request is        *)
(* issued, no error is surfaced and the prompt input keeps its text.       *)
(***************************************************************************)
C14_UnmatchedIsNoOp == [][C14_IgnoredStep]_vars

C14_Witness ==
  /\ noops = 1
  /\ prompt = PromptUnmatched
  /\ agents = <<>>
  /\ pending = <<>>
  /\ issued = 0

\* a step of handleSendMessage: a call that was accepted or one that returned
IsSendCall == ChatView /\ (sends' # sends \/ noops' # noops)

C15_GuardStep ==
  /\ (IsSendCall /\ (selectedAgent = Null \/ Trim(currentMessage) = <<>>)) =>
        /\ noops' = noops + 1
        /\ UNCHANGED <<prompt, agents, selectedAgent, chatMode, currentMessage,
                       isLoading, pending, escaped, generates, sends, issued,
                       creates>>
  /\ IsAcceptedSend => (selectedAgent # Null /\ Trim(currentMessage) # <<>>)

(***************************************************************************)
(* C15.  handleSendMessage leaves Idle only for a non-blank message with   *)
(* an entity selected: with no entity selected or an empty or              *)
(* whitespace-only input the call appends no message, issues no request,   *)
(* does not set the loading flag and leaves the collection, the selection  *)
(* and the input buffer unchanged.                                         *)
(***************************************************************************)
C15_BlankSendIsNoOp == [][C15_GuardStep]_vars

C15_Witness ==
  /\ noops = 1
  /\ currentMessage = <<" ">>
  /\ selectedAgent # Null
  /\ selectedAgent.messages = <<>>
  /\ agents = <<selectedAgent>>
  /\ pending = <<>>
  /\ ~isLoading
  /\ issued = creates

\* the chat requests in flight
ChatPending == {i \in 1..Len(pending) : pending[i].kind = "chat"}

\* the user message the request pending[i] was sent for
SentMessage(i) == pending[i].updated.messages[Len(pending[i].updated.messages)]

\* the entries of the collection for the entity of the request pending[i]
EntriesOf(i) == {k \in 1..Len(agents) : agents[k].id = pending[i].selectedAgent.id}

C16_SendStep ==
  IsAcceptedSend =>
     /\ isLoading'
     /\ selectedAgent'.messages =
           Append(selectedAgent.messages, UserMessage(currentMessage, now'))
     /\ \E k \in 1..Len(agents') :
           /\ agents'[k].id = selectedAgent.id
           /\ agents'[k].messages = selectedAgent'.messages

C16_InFlight ==
  \A i \in ChatPending :
     /\ isLoading
     /\ EntriesOf(i) # {}
     /\ \A k \in EntriesOf(i) :
           /\ agents[k].messages # <<>>
           /\ LastMessage(agents[k]) = SentMessage(i)
     /\ selectedAgent.id = pending[i].selectedAgent.id =>
           LastMessage(selectedAgent) = SentMessage(i)

(***************************************************************************)
(* C16.  An accepted send appends the user message to the selected entity, *)
(* in the collection and in the selected copy, and sets the loading flag;  *)
(* in every state where the request is in flight the loading flag is set,  *)
(* the user message is the last user message of the entity and no agent    *)
(* message follows it.                                                     *)
(***************************************************************************)
C16_OptimisticUpdate == []C16_InFlight /\ [][C16_SendStep]_vars

(***************************************************************************)
(* C17.  In every reachable state at most one chat request per entity is   *)
(* in flight.                                                              *)
(***************************************************************************)
C17_OneInFlightPerEntity ==
  \A i, j \in ChatPending :
     pending[i].selectedAgent.id = pending[j].selectedAgent.id => i = j

C18_IssuedCount == issued = sends + creates

C18_StepIssuesOne ==
  /\ IsAcceptedSend => (issued' = issued + 1 /\ Len(pending') = Len(pending) + 1)
  /\ (creates' = creates + 1) =>
        (issued' = issued + 1 /\ Len(pending') = Len(pending) + 1)
  /\ (sends' = sends /\ creates' = creates) =>
        (issued' = issued /\ Len(pending') <= Len(pending))

(***************************************************************************)
(* C18.  There are no retries: each accepted handleSendMessage call and    *)
(* each custom-notion classification issues exactly one request, so the    *)
(* number of requests ever issued equals the accepted sends plus the       *)
(* custom-notion classifications, however many of them failed.             *)
(***************************************************************************)
C18_NoRetries == []C18_IssuedCount /\ [][C18_StepIssuesOne]_vars

C18_Witness ==
  /\ issued = 2
  /\ sends = 1
  /\ creates = 1
  /\ pending = <<>>
  /\ selectedAgent # Null
  /\ Len(selectedAgent.messages) = 2
  /\ selectedAgent.messages[2].content = Str(ErrorContent)

C19_SettleStep ==
  \A i \in 1..Len(pending) :
     IsChatSettled(i) => (isLoading' = FALSE /\ currentMessage' = <<>>)

(***************************************************************************)
(* C19.  Whenever a chat request settles, with success or with failure,    *)
(* the loading flag is false and the input buffer is empty in the          *)
(* resulting state, also when the user typed while the request was in      *)
(* flight.                                                                 *)
(***************************************************************************)
C19_SettledIsIdleAndEmpty == [][C19_SettleStep]_vars

\* an agent message directly follows the user message of the request pending[i]
HasReply(ms, i) ==
  \E k \in 1..(Len(ms) - 1) :
     ms[k] = SentMessage(i) /\ ms[k + 1].sender = "agent"

C20_WhileInFlight ==
  \A i \in ChatPending :
     /\ isLoading
     /\ selectedAgent.id = pending[i].selectedAgent.id =>
           ~HasReply(selectedAgent.messages, i)
     /\ \A k \in EntriesOf(i) : ~HasReply(agents[k].messages, i)

C20_SettleStep ==
  \A i \in 1..Len(pending) :
     IsChatSettled(i) =>
        /\ isLoading' = FALSE
        /\ Len(selectedAgent'.messages) = Len(pending[i].updated.messages) + 1
        /\ SubSeq(selectedAgent'.messages, 1, Len(pending[i].updated.messages))
              = pending[i].updated.messages
        /\ LastMessage(selectedAgent').sender = "agent"

(***************************************************************************)
(* C20.  No timeout or cancellation exists: while a chat request has not   *)
(* settled, the loading flag is true and no agent message has been         *)
(* appended for that send; every request that settles gives a state with   *)
(* exactly one agent message for it and the flag cleared.                  *)
(***************************************************************************)
C20_NoTimeout == []C20_WhileInFlight /\ [][C20_SettleStep]_vars

(***************************************************************************)
(* C21.  Entity ids are unique: any two entities of the collection have    *)
(* distinct ids, for every pair of creation times the clock allows, two    *)
(* creations within one clock tick included.                               *)
(***************************************************************************)
C21_EntityIdsUnique ==
  \A i, j \in 1..Len(agents) : agents[i].id = agents[j].id => i = j

\* every entity the state holds: the collection and the selected copy
Entities == {agents[i] : i \in 1..Len(agents)} \cup ({selectedAgent} \ {Null})

UniqueMessageIds(ms) ==
  \A i, j \in 1..Len(ms) : ms[i].id = ms[j].id => i = j

(***************************************************************************)
(* C22.  Message ids are unique tokens: within any entity's message list,  *)
(* in every reachable state, no two messages have the same id.             *)
(***************************************************************************)
C22_MessageIdsUnique == \A a \in Entities : UniqueMessageIds(a.messages)

TipHabitTracker == <<"C","r","e","a","t","e"," ","a"," ","h","a","b","i","t"," ","t","r","a","c","k","e","r">>
TipSearchPrefix == <<"S","e","a","r","c","h"," ","f","o","r"," ">>
TipDesktopPrefix == <<"C","o","d","e"," ","m","e"," ","a","n"," ","a","p","p"," ">>

\* the category the sidebar advertises for a prompt, "any" when it has none
Advertised(p) ==
  CASE p = TipHabitTracker -> "habit-tracker"
    [] p = TipPhysicsNotes -> "physics-notes"
    [] p = TipCustomNotion -> "custom-notion"
    [] StartsWith(p, TipSearchPrefix) -> "search"
    [] StartsWith(p, TipDesktopPrefix) -> "desktop-agent"
    [] OTHER -> "any"

\* the category a handleGenerateAgent step gave its entity or its request
CreatedCategory ==
  IF noops' # noops THEN "none"
  ELSE IF pending' # pending THEN SentRequest.type
  ELSE agents'[Len(agents')].type

C23_TipStep ==
  (IsGenerateCall /\ Advertised(prompt) # "any") =>
     CreatedCategory = Advertised(prompt)

C23_CaseIndependent ==
  /\ ClassifyType(prompt) = ClassifyType(ToLowerCase(prompt))
  /\ ClassifyType(prompt) = ClassifyType([k \in 1..Len(prompt) |->
        IF \E u \in 1..Len(Upper) : Lower[u] = prompt[k]
        THEN Upper[CHOOSE u \in 1..Len(Upper) : Lower[u] = prompt[k]]
        ELSE prompt[k]])

(***************************************************************************)
(* C23.  Each prompt of the Tips & Prompts sidebar, typed with the         *)
(* capitalisation shown, creates an entity of the advertised category,     *)
(* for every topic or purpose text, and the category of a prompt does not  *)
(* depend on its letter case.                                              *)
(***************************************************************************)
C23_TipsGiveAdvertisedCategory == []C23_CaseIndependent /\ [][C23_TipStep]_vars

C24_TrimStep ==
  IsGenerateCall => CreatedCategory = ClassifyType(Trim(prompt))

(***************************************************************************)
(* C24.  Classification works on the trimmed prompt: handleGenerateAgent   *)
(* on a prompt with leading or trailing whitespace picks the category it   *)
(* picks for the trimmed prompt.                                           *)
(***************************************************************************)
C24_ClassifiesTrimmed == [][C24_TrimStep]_vars

\* every entity but the one with the given id keeps its place and its messages
OthersKeepMessages(id) ==
  /\ Len(agents') = Len(agents)
  /\ \A k \in 1..Len(agents) :
        agents[k].id # id =>
           /\ agents'[k].id = agents[k].id
           /\ agents'[k].messages = agents[k].messages

C25_FrameStep ==
  /\ IsAcceptedSend => OthersKeepMessages(selectedAgent.id)
  /\ \A i \in 1..Len(pending) :
        IsChatSettled(i) => OthersKeepMessages(pending[i].selectedAgent.id)

(***************************************************************************)
(* C25.  A send to entity A and the settlement of its request change only  *)
(* A: every other entity of the collection has the same message list       *)
(* after the step as before it.                                            *)
(***************************************************************************)
C25_OnlyTargetChanges == [][C25_FrameStep]_vars

(***************************************************************************)
(* C26.  The selected copy and the collection agree: in every reachable    *)
(* state where an entity is selected, the collection contains an entity    *)
(* with the same id whose message list equals the selected copy's.         *)
(***************************************************************************)
C26_SelectedAgreesWithCollection ==
  selectedAgent # Null =>
     \E k \in 1..Len(agents) :
        /\ agents[k].id = selectedAgent.id
        /\ agents[k].messages = selectedAgent.messages

(***************************************************************************)
(* C27.  The loading flag tracks the pending chat requests: in every       *)
(* reachable state isLoading is true if and only if at least one chat      *)
(* request has not yet settled.                                            *)
(***************************************************************************)
C27_LoadingIffPending == isLoading <=> ChatPending # {}

C28_SettleStep ==
  \A i \in 1..Len(pending) :
     IsChatSettled(i) =>
        /\ (selectedAgent = Null) = (selectedAgent' = Null)
        /\ selectedAgent # Null => selectedAgent'.id = selectedAgent.id

(***************************************************************************)
(* C28.  The settlement of a chat request does not change which entity is  *)
(* selected: the selected entity id after the continuation equals the      *)
(* selected entity id before it.                                           *)
(***************************************************************************)
C28_SettlementKeepsSelection == [][C28_SettleStep]_vars

C29_NothingStored ==
  \A a \in Entities :
     /\ a.pageId = Undefined
     /\ a.notionId # Undefined => a.type = "custom-notion"

C29_SendStep ==
  (IsAcceptedSend /\ selectedAgent.type = "custom-notion"
      /\ ~Includes(currentMessage, "|")) =>
     SentRequest.payload.page_id = <<>>

(***************************************************************************)
(* C29.  No operation ever stores a secondary reference on an entity: in   *)
(* every reachable state every entity's pageId is absent and only          *)
(* custom-notion entities have a notionId, so for an input without a pipe  *)
(* the page_id sent for a custom-notion entity is the empty string.        *)
(***************************************************************************)
C29_PageIdNeverStored == []C29_NothingStored /\ [][C29_SendStep]_vars

C29_Witness ==
  /\ selectedAgent # Null
  /\ selectedAgent.type = "custom-notion"
  /\ selectedAgent.notionId # Undefined
  /\ selectedAgent.pageId = Undefined
  /\ Len(selectedAgent.messages) = 2
  /\ \E k \in 1..Len(agents) : agents[k].type = "search"
  /\ pending = <<>>

\* what tells one entity from another, whatever messages it holds
Identity(a) == <<a.id, a.type, a.notionId, a.description>>

\* the entities the state knows: those it shows and those a pending
\* continuation still holds
KnownIdentities ==
  {Identity(a) : a \in Entities}
    \cup UNION {{Identity(pending[i].agents[k]) : k \in 1..Len(pending[i].agents)} :
                 i \in 1..Len(pending)}
    \cup {Identity(pending[i].updated) : i \in ChatPending}

IsCreationSettledStep == \E i \in 1..Len(pending) : IsCreationSettled(i)

C30_CreationStep ==
  /\ (creates' = creates + 1) =>
        /\ agents' = agents
        /\ prompt' = prompt
        /\ SentRequest.prompt = prompt
  /\ \A i \in 1..Len(pending) :
        IsCreationSettled(i) =>
           /\ agents'[Len(agents')].type = "custom-notion"
           /\ agents'[Len(agents')].description = pending[i].prompt
           /\ agents'[Len(agents')].messages = <<>>
           /\ prompt' = <<>>
  /\ IsDirectCreation =>
        /\ agents' = Append(agents, agents'[Len(agents')])
        /\ agents'[Len(agents')].type \in AgentTypes \ {"custom-notion"}
        /\ agents'[Len(agents')].description = prompt
        /\ prompt' = <<>>
  /\ (agents' # agents /\ ~IsCreationSettledStep) =>
        \A k \in 1..Len(agents') :
           agents'[k].type = "custom-notion" =>
              Identity(agents'[k]) \in KnownIdentities

C30_SettledBeforeShown ==
  (\E a \in Entities : a.type = "custom-notion") =>
     creates > Cardinality({i \in 1..Len(pending) : pending[i].kind = "create"})

(***************************************************************************)
(* C30.  A custom-notion entity enters the collection only when its        *)
(* creation request has settled, never while the request is in flight;     *)
(* its description is the prompt at submission and the prompt input is     *)
(* cleared at that point, while for the four other categories the entity   *)
(* is added and the prompt cleared in the step of the submission.          *)
(***************************************************************************)
C30_NotionEntityAfterSettle ==
  []C30_SettledBeforeShown /\ [][C30_CreationStep]_vars

C30_Witness ==
  /\ creates = 1
  /\ Len(pending) = 1
  /\ pending[1].kind = "create"
  /\ prompt = PromptNotion
  /\ Len(agents) = 1
  /\ agents[1].type = "search"

====
